---- MODULE Spec2Model ----
(***************************************************************************)
(* Model of main.py, the parking API: lots, spots and reservations kept in  *)
(* a relational store, and the request handlers that read and write them.  *)
(*                                                                         *)
(* Every request runs in its own ORM session (get_db).  A handler's reads  *)
(* are separate statements that see the rows committed so far, and its     *)
(* writes are flushed and committed together by db.commit().  A handler is *)
(* therefore modelled as a read step (up to the last SELECT, or the        *)
(* HTTPException it raises) followed by a commit step; steps of different  *)
(* requests interleave.  Rows are never deleted by any handler, so a row's *)
(* id is its position in its table.                                        *)
(***************************************************************************)
EXTENDS Integers, Sequences, FiniteSets

VARIABLES lots, spots, reservations, req, resp

vars == <<lots, spots, reservations, req, resp>>
db == <<lots, spots, reservations>>

(***************************************************************************)
(* Bounds of the model.                                                    *)
(***************************************************************************)
MaxLots == 2
MaxSpots == 2
MaxRes == 2

(***************************************************************************)
(* Inputs of the requests.  An id beyond the rows created so far is the id *)
(* of a row that does not exist.                                           *)
(***************************************************************************)
Workers == {1, 2}
LotIds == 1..MaxLots
SpotIds == 1..MaxSpots
ResIds == 1..MaxRes
Numbers == {"A1", "A2"}
Plates == {"KA01"}
Instants == {0, 1, 2}
Offsets == {0, 1}

(***************************************************************************)
(* Timestamps.  A request carries timezone-aware datetimes: an instant t   *)
(* (hours after 10:00 UTC of one fixed day) written with a UTC offset off  *)
(* (hours).  The store keeps them as the text datetime.isoformat() gives.  *)
(* Of "2024-01-01THH:00:00+OO:00" the model keeps the characters that vary *)
(* (HH, the sign, OO) as character codes; the others are the same in every *)
(* string and at the same positions, so the order of the strings is that   *)
(* of the kept characters.                                                 *)
(***************************************************************************)
DateTimes == [t : Instants, off : Offsets]

Digit(d) == 48 + d

isoformat(dt) ==
    LET wall == 10 + dt.t + dt.off
        mag == IF dt.off < 0 THEN 0 - dt.off ELSE dt.off
    IN  << Digit(wall \div 10), Digit(wall % 10),
           IF dt.off < 0 THEN 45 ELSE 43,
           Digit(mag \div 10), Digit(mag % 10) >>

\* the datetime a stored string reads back as (ReservationRead)
fromisoformat(s) ==
    LET wall == (s[1] - 48) * 10 + (s[2] - 48)
        mag == (s[4] - 48) * 10 + (s[5] - 48)
        off == IF s[3] = 45 THEN 0 - mag ELSE mag
    IN  [t |-> wall - off - 10, off |-> off]

\* text comparison of the store (start_time and end_time are String columns):
\* character by character in code order, a proper prefix first
RECURSIVE StrLt(_, _)
StrLt(a, b) ==
    IF b = << >> THEN FALSE
    ELSE IF a = << >> THEN TRUE
    ELSE IF Head(a) # Head(b) THEN Head(a) < Head(b)
    ELSE StrLt(Tail(a), Tail(b))

StrLe(a, b) == a = b \/ StrLt(a, b)
StrGt(a, b) == StrLt(b, a)

(***************************************************************************)
(* Request payloads.                                                       *)
(***************************************************************************)
LotCreate == [name : {"Lot"}, latitude : {0}, longitude : {0}]

SpotCreate == [number : Numbers, type : {"car"}]

ReserveCreate ==
    { p \in [spot_id : SpotIds, start_time : DateTimes, end_time : DateTimes,
             vehicle_plate : Plates] :
        p.start_time.off = p.end_time.off }

\* validator of ReserveCreate.end_time: aware datetimes compare by instant
check_order(st, v) == ~(v.t <= st.t)

(***************************************************************************)
(* Rows, sessions and responses.                                           *)
(***************************************************************************)
Idle == [op |-> "idle"]
NoResp == [op |-> "none", code |-> 0]
Response(op, code) == [op |-> op, code |-> code]

HasLot(id) == id \in 1..Len(lots)
HasSpot(id) == id \in 1..Len(spots)
HasRes(id) == id \in 1..Len(reservations)

\* the unit of work writes a column only when the attribute's value differs
\* from the value the session loaded; otherwise the row keeps what is stored
Flushed(loaded, value, stored) == IF value = loaded THEN stored ELSE value

InFlight(op) == Cardinality({w \in Workers : req[w].op = op})

Init ==
    /\ lots = << >>
    /\ spots = << >>
    /\ reservations = << >>
    /\ req = [w \in Workers |-> Idle]
    /\ resp = NoResp

Reply(w, op, code) ==
    /\ req' = [req EXCEPT ![w] = Idle]
    /\ resp' = Response(op, code)

Raise(op, code) ==
    /\ resp' = Response(op, code)
    /\ UNCHANGED <<db, req>>

(***************************************************************************)
(* POST /lots                                                              *)
(***************************************************************************)
create_lot(w, payload) ==
    /\ req[w] = Idle
    /\ Len(lots) < MaxLots
    /\ lots' = Append(lots, payload)
    /\ resp' = Response("create_lot", 201)
    /\ UNCHANGED <<spots, reservations, req>>

(***************************************************************************)
(* POST /lots/{lot_id}/spots                                               *)
(***************************************************************************)
\* mutant: the number is looked up in every lot
SpotExistsAnywhere(lot_id, number) ==
    \E i \in 1..Len(spots) : spots[i].number = number

SpotExists(lot_id, number) ==
    \E i \in 1..Len(spots) :
        spots[i].lot_id = lot_id /\ spots[i].number = number

create_spot_query(w, lot_id, payload) ==
    /\ req[w] = Idle
    /\ IF ~HasLot(lot_id) THEN Raise("create_spot", 404)
       ELSE IF SpotExists(lot_id, payload.number) THEN Raise("create_spot", 409)
       ELSE /\ Len(spots) + InFlight("create_spot") < MaxSpots
            /\ req' = [req EXCEPT ![w] =
                          [op |-> "create_spot", lot_id |-> lot_id, payload |-> payload]]
            /\ UNCHANGED <<db, resp>>

create_spot_commit(w) ==
    /\ req[w].op = "create_spot"
    /\ spots' = Append(spots, [lot_id |-> req[w].lot_id,
                               number |-> req[w].payload.number,
                               type |-> req[w].payload.type,
                               is_available |-> TRUE])
    /\ Reply(w, "create_spot", 201)
    /\ UNCHANGED <<lots, reservations>>

(***************************************************************************)
(* POST /spots/{spot_id}/release                                           *)
(***************************************************************************)
release_spot_query(w, spot_id) ==
    /\ req[w] = Idle
    /\ IF ~HasSpot(spot_id) THEN Raise("release_spot", 404)
       ELSE /\ req' = [req EXCEPT ![w] =
                          [op |-> "release_spot", spot_id |-> spot_id,
                           is_available |-> spots[spot_id].is_available]]
            /\ UNCHANGED <<db, resp>>

\* mutant: releasing a spot also ends its active reservations
release_spot_commit_ends_active(w) ==
    /\ req[w].op = "release_spot"
    /\ LET s == req[w].spot_id
       IN  /\ spots' = [spots EXCEPT ![s].is_available =
                           Flushed(req[w].is_available, TRUE, @)]
           /\ reservations' =
                  [i \in 1..Len(reservations) |->
                      IF reservations[i].spot_id = s /\ reservations[i].status = "active"
                      THEN [reservations[i] EXCEPT !.status = "ended"]
                      ELSE reservations[i]]
    /\ Reply(w, "release_spot", 200)
    /\ UNCHANGED lots

release_spot_commit(w) ==
    /\ req[w].op = "release_spot"
    /\ LET s == req[w].spot_id
       IN  spots' = [spots EXCEPT ![s].is_available =
                        Flushed(req[w].is_available, TRUE, @)]
    /\ Reply(w, "release_spot", 200)
    /\ UNCHANGED <<lots, reservations>>

(***************************************************************************)
(* GET /spots/search                                                       *)
(*                                                                         *)
(* Coordinates are whole multiples of the angle whose arc on the sphere of *)
(* radius R = 6371000 m is 500 m (about 0.0045 degrees).  For two points   *)
(* on the equator, or on one meridian, the haversine formula gives R times *)
(* the angle between them, which is 500 m times the difference of the      *)
(* coordinates; the model places lots and query points there.  Distances   *)
(* are then whole metres, and d <= radius_m * 1.5 is 2 * d <= 3 * radius_m.*)
(* The handler only reads; it is one step of a request served alone.       *)
(***************************************************************************)
Abs(x) == IF x < 0 THEN 0 - x ELSE x

haversine_m(lat1, lon1, lat2, lon2) ==
    CASE lon1 = lon2 -> 500 * Abs(lat2 - lat1)
      [] lat1 = 0 /\ lat2 = 0 -> 500 * Abs(lon2 - lon1)

\* mutant: the buffer factor is 0.5 instead of 1.5
lot_ids_in_half_radius(lat, lng, radius_m) ==
    {i \in 1..Len(lots) :
        2 * haversine_m(lat, lng, lots[i].latitude, lots[i].longitude) <= radius_m}

\* the lots kept by the coarse filter
lot_ids_in_radius(lat, lng, radius_m) ==
    {i \in 1..Len(lots) :
        2 * haversine_m(lat, lng, lots[i].latitude, lots[i].longitude) <= 3 * radius_m}

\* mutant: the availability filter is missing from the query
spots_of_lots(lot_ids) ==
    SelectSeq([i \in 1..Len(spots) |-> i], LAMBDA i : spots[i].lot_id \in lot_ids)

\* ids of the available spots of the given lots, in the order of the table
available_spots(lot_ids) ==
    SelectSeq([i \in 1..Len(spots) |-> i],
              LAMBDA i : spots[i].is_available /\ spots[i].lot_id \in lot_ids)

SpotNearby(i, d) ==
    [id |-> i, lot_id |-> spots[i].lot_id, number |-> spots[i].number,
     type |-> spots[i].type, is_available |-> spots[i].is_available, distance_m |-> d]

\* the spots within radius_m, each with the distance of its lot
RECURSIVE nearby(_, _, _, _)
nearby(ids, lat, lng, radius_m) ==
    IF ids = << >> THEN << >>
    ELSE LET i == Head(ids)
             L == lots[spots[i].lot_id]
             d == haversine_m(lat, lng, L.latitude, L.longitude)
             rest == nearby(Tail(ids), lat, lng, radius_m)
         IN  IF d <= radius_m THEN <<SpotNearby(i, d)>> \o rest ELSE rest

\* results.sort(key=distance_m): a stable sort
RECURSIVE Insert(_, _)
Insert(x, sorted) ==
    IF sorted = << >> THEN <<x>>
    ELSE IF x.distance_m < Head(sorted).distance_m THEN <<x>> \o sorted
    ELSE <<Head(sorted)>> \o Insert(x, Tail(sorted))

RECURSIVE sort(_)
sort(results) ==
    IF results = << >> THEN << >>
    ELSE Insert(Head(results), sort(Tail(results)))

\* results[:limit]
truncate(results, limit) ==
    SubSeq(results, 1, IF Len(results) < limit THEN Len(results) ELSE limit)

search_results(lat, lng, radius_m, limit) ==
    LET lot_ids == lot_ids_in_radius(lat, lng, radius_m)
    IN  IF lot_ids = {} THEN << >>
        ELSE truncate(sort(nearby(available_spots(lot_ids), lat, lng, radius_m)), limit)

search_spots(w, lat, lng, radius_m, limit) ==
    /\ req[w] = Idle
    /\ resp' = [op |-> "search_spots", code |-> 200,
                query |-> [lat |-> lat, lng |-> lng, radius_m |-> radius_m, limit |-> limit],
                body |-> search_results(lat, lng, radius_m, limit)]
    /\ UNCHANGED <<db, req>>

(***************************************************************************)
(* POST /reservations                                                      *)
(***************************************************************************)
\* mutant: the query does not filter on the spot
overlap_filter_any_spot(r, payload) ==
    /\ r.status = "active"
    /\ StrLe(r.start_time, isoformat(payload.end_time))
    /\ StrGt(r.end_time, isoformat(payload.start_time))

\* the filter of the overlap query, on one stored reservation
overlap_filter(r, payload) ==
    /\ r.spot_id = payload.spot_id
    /\ r.status = "active"
    /\ StrLe(r.start_time, isoformat(payload.end_time))
    /\ StrGt(r.end_time, isoformat(payload.start_time))

overlap(payload) ==
    \E i \in 1..Len(reservations) : overlap_filter(reservations[i], payload)

\* mutant: the spot is marked unavailable and committed before the overlap
\* query, so a refused request leaves the flag changed
create_reservation_query_marks_first(w, payload) ==
    /\ req[w] = Idle
    /\ IF ~check_order(payload.start_time, payload.end_time)
       THEN Raise("create_reservation", 422)
       ELSE IF ~HasSpot(payload.spot_id) THEN Raise("create_reservation", 404)
       ELSE IF overlap(payload)
       THEN /\ spots' = [spots EXCEPT ![payload.spot_id].is_available = FALSE]
            /\ resp' = Response("create_reservation", 409)
            /\ UNCHANGED <<lots, reservations, req>>
       ELSE /\ Len(reservations) + InFlight("create_reservation") < MaxRes
            /\ req' = [req EXCEPT ![w] =
                          [op |-> "create_reservation", payload |-> payload,
                           is_available |-> spots[payload.spot_id].is_available]]
            /\ UNCHANGED <<db, resp>>

create_reservation_query(w, payload) ==
    /\ req[w] = Idle
    /\ IF ~check_order(payload.start_time, payload.end_time)
       THEN Raise("create_reservation", 422)
       ELSE IF ~HasSpot(payload.spot_id) THEN Raise("create_reservation", 404)
       ELSE IF overlap(payload) THEN Raise("create_reservation", 409)
       ELSE /\ Len(reservations) + InFlight("create_reservation") < MaxRes
            /\ req' = [req EXCEPT ![w] =
                          [op |-> "create_reservation", payload |-> payload,
                           is_available |-> spots[payload.spot_id].is_available]]
            /\ UNCHANGED <<db, resp>>

NewReservation(payload) ==
    [spot_id |-> payload.spot_id,
     start_time |-> isoformat(payload.start_time),
     end_time |-> isoformat(payload.end_time),
     vehicle_plate |-> payload.vehicle_plate,
     status |-> "active"]

create_reservation_commit(w) ==
    /\ req[w].op = "create_reservation"
    /\ LET payload == req[w].payload
       IN  /\ reservations' = Append(reservations, NewReservation(payload))
           /\ spots' = [spots EXCEPT ![payload.spot_id].is_available =
                           Flushed(req[w].is_available, FALSE, @)]
    /\ Reply(w, "create_reservation", 201)
    /\ UNCHANGED lots

(***************************************************************************)
(* POST /reservations/{reservation_id}/end                                 *)
(***************************************************************************)
\* mutant: only a cancelled reservation is refused
not_active_cancelled_only(r) == r.status = "cancelled"

\* r.status != "active"
not_active(r) == r.status # "active"

end_reservation_query(w, reservation_id) ==
    /\ req[w] = Idle
    /\ IF ~HasRes(reservation_id) THEN Raise("end_reservation", 404)
       ELSE IF not_active(reservations[reservation_id])
       THEN Raise("end_reservation", 400)
       ELSE /\ req' = [req EXCEPT ![w] =
                          [op |-> "end_reservation", reservation_id |-> reservation_id,
                           is_available |->
                               spots[reservations[reservation_id].spot_id].is_available]]
            /\ UNCHANGED <<db, resp>>

\* mutant: the reservation is ended and the spot is left as it is
end_reservation_commit_keeps_spot(w) ==
    /\ req[w].op = "end_reservation"
    /\ reservations' = [reservations EXCEPT ![req[w].reservation_id].status = "ended"]
    /\ Reply(w, "end_reservation", 200)
    /\ UNCHANGED <<lots, spots>>

\* mutant: the spot is freed only when no other reservation of it is active
end_reservation_commit_checks_others(w) ==
    /\ req[w].op = "end_reservation"
    /\ LET id == req[w].reservation_id
           s == reservations[id].spot_id
           others == {i \in 1..Len(reservations) :
                        /\ i # id
                        /\ reservations[i].spot_id = s
                        /\ reservations[i].status = "active"}
       IN  /\ reservations' = [reservations EXCEPT ![id].status = "ended"]
           /\ spots' = [spots EXCEPT ![s].is_available =
                           IF others # {} THEN @ ELSE Flushed(req[w].is_available, TRUE, @)]
    /\ Reply(w, "end_reservation", 200)
    /\ UNCHANGED lots

\* mutant: the reservation is marked cancelled instead of ended
end_reservation_commit_cancels(w) ==
    /\ req[w].op = "end_reservation"
    /\ LET id == req[w].reservation_id
           s == reservations[id].spot_id
       IN  /\ reservations' = [reservations EXCEPT ![id].status = "cancelled"]
           /\ spots' = [spots EXCEPT ![s].is_available =
                           Flushed(req[w].is_available, TRUE, @)]
    /\ Reply(w, "end_reservation", 200)
    /\ UNCHANGED lots

end_reservation_commit(w) ==
    /\ req[w].op = "end_reservation"
    /\ LET id == req[w].reservation_id
           s == reservations[id].spot_id
       IN  /\ reservations' = [reservations EXCEPT ![id].status = "ended"]
           /\ spots' = [spots EXCEPT ![s].is_available =
                           Flushed(req[w].is_available, TRUE, @)]
    /\ Reply(w, "end_reservation", 200)
    /\ UNCHANGED lots

(***************************************************************************)
(* Specifications.  Step(w) is one step of the request worker w serves.    *)
(* Spec: the workers' steps interleave freely.  SeqSpec: requests execute  *)
(* one at a time, each to its commit or error before the next starts.      *)
(***************************************************************************)
Step(w, Spots, Payloads) ==
    \/ \E payload \in LotCreate : create_lot(w, payload)
    \/ \E lot_id \in LotIds, payload \in Spots : create_spot_query(w, lot_id, payload)
    \/ create_spot_commit(w)
    \/ \E spot_id \in SpotIds : release_spot_query(w, spot_id)
    \/ release_spot_commit(w)
    \/ \E payload \in Payloads : create_reservation_query(w, payload)
    \/ create_reservation_commit(w)
    \/ \E id \in ResIds : end_reservation_query(w, id)
    \/ end_reservation_commit(w)

\* every lot numbers its spots from the same first number
SpotCreateA1 == {p \in SpotCreate : p.number = "A1"}

\* concurrent requests all write their timestamps in UTC
ReserveCreateUTC == {p \in ReserveCreate : p.start_time.off = 0}

Next == \E w \in Workers : Step(w, SpotCreateA1, ReserveCreateUTC)

Spec == Init /\ [][Next]_vars

NextSeq == Step(1, SpotCreateA1, ReserveCreate)

SeqSpec == Init /\ [][NextSeq]_vars

\* one at a time, every timestamp written in UTC
NextSeqUTC == Step(1, SpotCreateA1, ReserveCreateUTC)

SeqUTCSpec == Init /\ [][NextSeqUTC]_vars

(***************************************************************************)
(* SearchSpec: lots along the equator, their spots reserved and released,  *)
(* and searches from two points with radii between and beyond the lots'    *)
(* distances; requests run one at a time.                                  *)
(***************************************************************************)
LotCreateGeo == [name : {"Lot"}, latitude : {0}, longitude : {0, 1, 2}]
ReserveCreateOne ==
    {p \in ReserveCreateUTC : p.start_time.t = 0 /\ p.end_time.t = 1}
QueryPoints == [lat : {0}, lng : {0, 1}]
Radii == {400, 700}
Limits == {1, 2}

NextSearch ==
    \/ \E payload \in LotCreateGeo : create_lot(1, payload)
    \/ \E lot_id \in LotIds, payload \in SpotCreate : create_spot_query(1, lot_id, payload)
    \/ create_spot_commit(1)
    \/ \E payload \in ReserveCreateOne : create_reservation_query(1, payload)
    \/ create_reservation_commit(1)
    \/ \E spot_id \in SpotIds : release_spot_query(1, spot_id)
    \/ release_spot_commit(1)
    \/ \E q \in QueryPoints, radius_m \in Radii, limit \in Limits :
          search_spots(1, q.lat, q.lng, radius_m, limit)

SearchSpec == Init /\ [][NextSearch]_vars

(***************************************************************************)
(* LotSpec: lots registered with any name and any coordinates, and their   *)
(* spots.  In the unit of the coordinates 90 degrees are 20015 units and   *)
(* 180 degrees are 40030 units (rounded down).                             *)
(***************************************************************************)
LotCreateAny == [name : {"Lot", ""}, latitude : {0, 20016}, longitude : {0, 40031}]

NextLots ==
    \/ \E payload \in LotCreateAny : create_lot(1, payload)
    \/ \E lot_id \in LotIds, payload \in SpotCreate : create_spot_query(1, lot_id, payload)
    \/ create_spot_commit(1)

LotSpec == Init /\ [][NextLots]_vars

(***************************************************************************)
(* Vocabulary of the properties.  A reservation's window is the pair of    *)
(* instants its stored strings denote.                                     *)
(***************************************************************************)
ResIdx == 1..Len(reservations)
SpotIdx == 1..Len(spots)

start_instant(r) == fromisoformat(r.start_time).t
end_instant(r) == fromisoformat(r.end_time).t

\* half-open windows [s1,e1) and [s2,e2) overlap iff s1 < e2 and s2 < e1
WindowsOverlap(s1, e1, s2, e2) == s1 < e2 /\ s2 < e1

IsActive(i) == reservations[i].status = "active"
ActiveOn(s) == {i \in ResIdx : reservations[i].spot_id = s /\ IsActive(i)}

DoubleBooked(i, j) ==
    /\ i # j
    /\ reservations[i].spot_id = reservations[j].spot_id
    /\ IsActive(i) /\ IsActive(j)
    /\ WindowsOverlap(start_instant(reservations[i]), end_instant(reservations[i]),
                      start_instant(reservations[j]), end_instant(reservations[j]))

\* no request is between its query and its commit
Quiescent == \A w \in Workers : req[w] = Idle

(***************************************************************************)
(* C1: under any interleaving of concurrent createReservation requests, no *)
(* two active reservations of one spot ever have overlapping windows.      *)
(* The code fails it: two requests for the same window both run their      *)
(* overlap query before either commits, and both commit.                   *)
(***************************************************************************)
C1_NoDoubleBookingConcurrent ==
    \A i \in ResIdx, j \in ResIdx : ~DoubleBooked(i, j)

(***************************************************************************)
(* C2: when requests execute one at a time, after any sequence of calls no *)
(* two active reservations of one spot have overlapping half-open windows. *)
(* The code fails it: the overlap query compares the stored ISO strings,   *)
(* and two windows written with different UTC offsets can overlap in time  *)
(* while their strings do not (C20).                                       *)
(***************************************************************************)
C2_NoDoubleBookingSequential ==
    Quiescent => \A i \in ResIdx, j \in ResIdx : i < j => ~DoubleBooked(i, j)

(***************************************************************************)
(* C3: after every mutating operation, a spot's availability flag is false *)
(* if and only if the spot has an active reservation.                      *)
(* As stated it fails: release_spot flags a spot available whatever its    *)
(* reservations are.  What holds is one direction: a spot flagged          *)
(* unavailable has at least one active reservation.                        *)
(***************************************************************************)
C3_UnavailableIffActive ==
    Quiescent =>
        \A s \in SpotIdx : (spots[s].is_available = FALSE) <=> (ActiveOn(s) # {})

C3_UnavailableHasActive ==
    Quiescent =>
        \A s \in SpotIdx : (spots[s].is_available = FALSE) => (ActiveOn(s) # {})

\* a spot that has been reserved, ended and reserved again
C3_Witness ==
    /\ Quiescent
    /\ \E s \in SpotIdx :
          /\ spots[s].is_available = FALSE
          /\ ActiveOn(s) # {}
          /\ \E i \in ResIdx : reservations[i].spot_id = s /\ ~IsActive(i)

(***************************************************************************)
(* C4: in every reachable state each spot has at most one active           *)
(* reservation (so that end_reservation freeing the spot never leaves      *)
(* another active reservation on a spot marked available).                 *)
(* The code fails it: create_reservation accepts a second window on a spot *)
(* whose first reservation is still active when the windows do not         *)
(* overlap.                                                                *)
(***************************************************************************)
C4_AtMostOneActive ==
    \A s \in SpotIdx : Cardinality(ActiveOn(s)) <= 1

(***************************************************************************)
(* C5: for an existing spot and a request with end > start, the request    *)
(* fails with 409 if and only if some active reservation of the spot has   *)
(* existing.start < new.end and existing.end > new.start; windows that     *)
(* only touch do not conflict.                                             *)
(* The code fails it: the query tests existing.start <= new.end, so a      *)
(* request that ends where an active reservation starts is refused.        *)
(***************************************************************************)
ChronoConflict(payload) ==
    \E i \in ActiveOn(payload.spot_id) :
        /\ start_instant(reservations[i]) < payload.end_time.t
        /\ end_instant(reservations[i]) > payload.start_time.t

Refused(w, op, code) == req'[w] = Idle /\ resp' = Response(op, code)

C5_ConflictIffOverlap ==
    [][\A w \in Workers, payload \in ReserveCreate :
          ( /\ create_reservation_query(w, payload)
            /\ check_order(payload.start_time, payload.end_time)
            /\ HasSpot(payload.spot_id) )
          => (Refused(w, "create_reservation", 409) <=> ChronoConflict(payload))]_vars

(***************************************************************************)
(* C6: create_reservation and end_reservation are all-or-nothing: the      *)
(* reservation write and the spot's availability write become visible in   *)
(* one step, no state holds one without the other, and a request that      *)
(* fails commits neither.                                                  *)
(* The code fails it: the session writes is_available only when the value  *)
(* differs from the one it loaded before the overlap query, so a commit    *)
(* that follows another request's commit can insert the reservation (or    *)
(* end it) and leave the flag as the other request set it.                 *)
(***************************************************************************)
Failed == req' = req /\ resp'.code \in {400, 404, 409, 422}

C6_AllOrNothing ==
    [][ /\ \A i \in 1..Len(reservations') :
              i > Len(reservations) =>
                  /\ reservations'[i].status = "active"
                  /\ spots'[reservations'[i].spot_id].is_available = FALSE
        /\ \A i \in ResIdx :
              (IsActive(i) /\ reservations'[i].status = "ended") =>
                  spots'[reservations[i].spot_id].is_available = TRUE
        /\ Failed => UNCHANGED db ]_vars

(***************************************************************************)
(* C7: end_reservation on a reservation whose status is already ended      *)
(* fails with 400 and leaves every availability flag and every             *)
(* reservation's status as they were, whatever happened since the first    *)
(* end.                                                                    *)
(***************************************************************************)
C7_EndTwiceRefused ==
    [][\A w \in Workers, id \in ResIds :
          ( /\ end_reservation_query(w, id)
            /\ HasRes(id)
            /\ reservations[id].status = "ended" )
          => ( /\ resp' = Response("end_reservation", 400)
               /\ UNCHANGED <<db, req>> )]_vars

\* a second end was refused on a spot that has been reserved again since
C7_Witness ==
    /\ resp = Response("end_reservation", 400)
    /\ \E i \in ResIdx :
          /\ reservations[i].status = "ended"
          /\ spots[reservations[i].spot_id].is_available = FALSE
          /\ ActiveOn(reservations[i].spot_id) # {}

(***************************************************************************)
(* C8: a reservation is created active; the only status change is active   *)
(* to ended; an ended reservation never becomes active again; no           *)
(* reservation is removed and none changes its spot, start, end or plate.  *)
(***************************************************************************)
C8_LifecycleMonotone ==
    [][ /\ Len(reservations') >= Len(reservations)
        /\ \A i \in ResIdx :
              /\ reservations'[i].spot_id = reservations[i].spot_id
              /\ reservations'[i].start_time = reservations[i].start_time
              /\ reservations'[i].end_time = reservations[i].end_time
              /\ reservations'[i].vehicle_plate = reservations[i].vehicle_plate
              /\ \/ reservations'[i].status = reservations[i].status
                 \/ reservations[i].status = "active" /\ reservations'[i].status = "ended"
        /\ \A i \in 1..Len(reservations') :
              i > Len(reservations) => reservations'[i].status = "active" ]_vars

\* one reservation has been ended while a later one is still active
C8_Witness ==
    \E i \in ResIdx, j \in ResIdx :
        i < j /\ reservations[i].status = "ended" /\ reservations[j].status = "active"

(***************************************************************************)
(* C9: an operation that returns an error (400, 404, 409, 422) leaves the  *)
(* lots, the spots with their availability flags and the reservations with *)
(* their statuses unchanged.                                               *)
(***************************************************************************)
C9_ErrorsChangeNothing ==
    [][Failed => UNCHANGED db]_vars

\* a create_reservation was refused for a conflict with an active reservation
C9_Witness ==
    /\ resp = Response("create_reservation", 409)
    /\ \E s \in SpotIdx : ActiveOn(s) # {}

(***************************************************************************)
(* C10: a successful create_reservation followed immediately by            *)
(* end_reservation of the reservation it returned is accepted and leaves   *)
(* that reservation ended and its spot available, whatever the spot's      *)
(* state was before.                                                       *)
(***************************************************************************)
C10_RoundTrip ==
    [][ (resp = Response("create_reservation", 201) /\ Len(reservations) > 0) =>
          LET id == Len(reservations)
          IN  /\ end_reservation_query(1, id) => req'[1].op = "end_reservation"
              /\ ( /\ req[1].op = "end_reservation"
                   /\ req[1].reservation_id = id
                   /\ req'[1] = Idle )
                 => ( /\ resp' = Response("end_reservation", 200)
                      /\ reservations'[id].status = "ended"
                      /\ spots'[reservations[id].spot_id].is_available = TRUE ) ]_vars

\* the round trip was made on a spot that another reservation still holds
C10_Witness ==
    /\ resp = Response("end_reservation", 200)
    /\ Len(reservations) > 1
    /\ reservations[Len(reservations)].status = "ended"
    /\ reservations[1].status = "active"
    /\ reservations[1].spot_id = reservations[Len(reservations)].spot_id
    /\ spots[reservations[1].spot_id].is_available = TRUE

C12_DuplicateNumber ==
    [][ /\ \A lot_id \in LotIds, payload \in SpotCreate :
              (create_spot_query(1, lot_id, payload) /\ HasLot(lot_id)) =>
                  IF \E i \in SpotIdx : /\ spots[i].lot_id = lot_id
                                        /\ spots[i].number = payload.number
                  THEN /\ resp' = Response("create_spot", 409)
                       /\ UNCHANGED <<db, req>>
                  ELSE req'[1].op = "create_spot"
        /\ (req[1].op = "create_spot" /\ req'[1] = Idle) =>
              /\ resp' = Response("create_spot", 201)
              /\ Len(spots') = Len(spots) + 1
              /\ \A i \in SpotIdx : spots'[i] = spots[i]
              /\ spots'[Len(spots')].lot_id = req[1].lot_id
              /\ spots'[Len(spots')].number = req[1].payload.number
              /\ spots'[Len(spots')].is_available = TRUE
              /\ UNCHANGED <<lots, reservations>> ]_vars

\* the same number exists in two lots, and a duplicate in one lot was refused
C12_Witness ==
    /\ resp = Response("create_spot", 409)
    /\ \E i \in SpotIdx, j \in SpotIdx :
          /\ spots[i].number = spots[j].number
          /\ spots[i].lot_id # spots[j].lot_id

(***************************************************************************)
(* C13: search_spots with radius R and limit N returns the first N (or     *)
(* fewer, if fewer exist) of the spots flagged available whose lot is      *)
(* within R of the query point, in order of non-decreasing distance; it    *)
(* returns no unavailable spot and no spot of a farther lot, and it        *)
(* modifies no state.                                                      *)
(***************************************************************************)
LotDistance(i, q) ==
    haversine_m(q.lat, q.lng, lots[spots[i].lot_id].latitude,
                lots[spots[i].lot_id].longitude)

Qualifying(q) ==
    {i \in SpotIdx : spots[i].is_available /\ LotDistance(i, q) <= q.radius_m}

SearchPost ==
    LET q == resp.query
        b == resp.body
        returned == {b[k].id : k \in 1..Len(b)}
        wanted == IF Cardinality(Qualifying(q)) < q.limit
                  THEN Cardinality(Qualifying(q)) ELSE q.limit
    IN  /\ returned \subseteq Qualifying(q)
        /\ Cardinality(returned) = Len(b)
        /\ Len(b) = wanted
        /\ \A k \in 1..Len(b) : b[k].distance_m = LotDistance(b[k].id, q)
        /\ \A k \in 1..Len(b), l \in 1..Len(b) :
              k < l => b[k].distance_m <= b[l].distance_m
        /\ \A i \in Qualifying(q) \ returned, k \in 1..Len(b) :
              b[k].distance_m <= LotDistance(i, q)

C13_SearchResult ==
    [][resp'.op = "search_spots" => (UNCHANGED db /\ SearchPost')]_vars

\* a search found two spots at different distances and returned the nearer
C13_Witness ==
    /\ resp.op = "search_spots"
    /\ Len(resp.body) = resp.query.limit
    /\ Cardinality(Qualifying(resp.query)) > resp.query.limit
    /\ \E i \in Qualifying(resp.query) :
          LotDistance(i, resp.query) > resp.body[1].distance_m

(***************************************************************************)
(* C19: the result of the two-stage filter equals that of the exact test   *)
(* distance <= radius applied to every available spot of every lot, then   *)
(* sorted and truncated; the coarse lot filter drops no spot the exact     *)
(* filter keeps.                                                           *)
(***************************************************************************)
SingleStage(q) ==
    truncate(sort(nearby(SelectSeq([i \in 1..Len(spots) |-> i],
                                   LAMBDA i : spots[i].is_available),
                         q.lat, q.lng, q.radius_m)),
             q.limit)

C19_TwoStageIsSingleStage ==
    resp.op = "search_spots" => resp.body = SingleStage(resp.query)

\* a lot passed the coarse filter and failed the exact one, beside a spot found
C19_Witness ==
    /\ resp.op = "search_spots"
    /\ resp.body # << >>
    /\ \E i \in SpotIdx :
          /\ spots[i].is_available
          /\ spots[i].lot_id \in lot_ids_in_radius(resp.query.lat, resp.query.lng,
                                                   resp.query.radius_m)
          /\ LotDistance(i, resp.query) > resp.query.radius_m

(***************************************************************************)
(* C14: create_lot fails and stores no lot when the latitude is outside    *)
(* [-90,90], the longitude is outside [-180,180] or the name is empty, so  *)
(* every stored lot has an in-range coordinate and a non-empty name.       *)
(* The code fails it: LotCreate declares a str and two floats with no      *)
(* constraint, and create_lot stores whatever it is given.                 *)
(***************************************************************************)
C14_StoredLotsValid ==
    \A i \in 1..Len(lots) :
        /\ lots[i].name # ""
        /\ lots[i].latitude >= -20015 /\ lots[i].latitude <= 20015
        /\ lots[i].longitude >= -40030 /\ lots[i].longitude <= 40030

(***************************************************************************)
(* C15: concurrent create_reservation requests on different spots do not   *)
(* block or affect each other: a request that has passed its query can     *)
(* always commit, and the commit of a request on one spot changes neither  *)
(* the other requests in progress, nor any other spot, nor any stored      *)
(* reservation, nor the answer of the overlap query for any request on     *)
(* another spot; so every interleaving gives both requests the outcome and *)
(* the rows of either serial order.                                        *)
(***************************************************************************)
C15_DifferentSpotsIndependent ==
    [][\A w \in Workers :
          /\ req[w].op = "create_reservation" => ENABLED create_reservation_commit(w)
          /\ (req[w].op = "create_reservation" /\ req'[w] = Idle) =>
                LET A == req[w].payload.spot_id
                IN  /\ resp' = Response("create_reservation", 201)
                    /\ reservations' = Append(reservations, NewReservation(req[w].payload))
                    /\ \A v \in Workers \ {w} : req'[v] = req[v]
                    /\ \A B \in SpotIdx \ {A} : spots'[B] = spots[B]
                    /\ \A payload \in ReserveCreate :
                          payload.spot_id # A => (overlap(payload)' <=> overlap(payload)) ]_vars

\* a request on one spot committed while a request for the same window on
\* another spot was between its query and its commit
C15_Witness ==
    /\ resp = Response("create_reservation", 201)
    /\ reservations # << >>
    /\ \E v \in Workers :
          /\ req[v].op = "create_reservation"
          /\ req[v].payload.spot_id # reservations[Len(reservations)].spot_id
          /\ isoformat(req[v].payload.start_time) = reservations[Len(reservations)].start_time
          /\ isoformat(req[v].payload.end_time) = reservations[Len(reservations)].end_time

(***************************************************************************)
(* C16: of concurrent end_reservation requests for one active reservation  *)
(* exactly one succeeds: a request that read status = active never commits *)
(* after another request has ended the reservation.                        *)
(* The code fails it: both requests read active before either commits,     *)
(* and both commit and return 200.                                         *)
(***************************************************************************)
C16_EndedOnce ==
    [][\A w \in Workers :
          (req[w].op = "end_reservation" /\ req'[w] = Idle) =>
              reservations[req[w].reservation_id].status = "active"]_vars

(***************************************************************************)
(* C17: in every reachable state, also under interleaved create_spot       *)
(* requests, no two spots of one lot carry the same number.                *)
(* The code fails it: two requests for the same number both run the        *)
(* existence query before either inserts, and the table has no unique      *)
(* constraint to refuse the second insert.                                 *)
(***************************************************************************)
C17_NumbersUniquePerLot ==
    \A i \in SpotIdx, j \in SpotIdx :
        (i # j /\ spots[i].lot_id = spots[j].lot_id) => spots[i].number # spots[j].number

(***************************************************************************)
(* C18: the decision of create_reservation never depends on the spot's     *)
(* availability flag: on a spot flagged unavailable a request whose window *)
(* overlaps no active reservation succeeds, and on a spot flagged          *)
(* available (after release_spot) a request overlapping an active          *)
(* reservation is refused with 409.                                        *)
(* The code fails the first half: the flag is indeed never read, but a     *)
(* request that ends where an active reservation starts overlaps nothing   *)
(* and is refused all the same (C5).                                       *)
(***************************************************************************)
C18_DecisionIgnoresFlag ==
    [][\A payload \in ReserveCreate :
          ( /\ create_reservation_query(1, payload)
            /\ check_order(payload.start_time, payload.end_time)
            /\ HasSpot(payload.spot_id) )
          => /\ (spots[payload.spot_id].is_available = FALSE /\ ~ChronoConflict(payload))
                   => ~Refused(1, "create_reservation", 409)
             /\ (spots[payload.spot_id].is_available = TRUE /\ ChronoConflict(payload))
                   => Refused(1, "create_reservation", 409) ]_vars

(***************************************************************************)
(* C20: the overlap decision depends only on the instants the timestamps   *)
(* denote: two requests for the same spot that denote the same start and   *)
(* end instants, written with different UTC offsets, get the same answer   *)
(* from the overlap query.                                                 *)
(* The code fails it: the query compares the ISO strings, whose order      *)
(* follows the wall-clock digits and not the instant.                      *)
(***************************************************************************)
C20_SameInstantsSameDecision ==
    \A p \in ReserveCreate, q \in ReserveCreate :
        ( /\ p.spot_id = q.spot_id
          /\ p.start_time.t = q.start_time.t
          /\ p.end_time.t = q.end_time.t )
        => (overlap(p) <=> overlap(q))

====
